---- MODULE Spec2Model ----
(***************************************************************************)
(* A model of andydam/lights: the Spotify playback synchronisation engine  *)
(* (clients/spotify: poll loop, playback clock, five interval schedulers)  *)
(* and the LED transition engine (clients/led/base: brightness and colour  *)
(* ramps guarded by a lock flag per light and kind).                       *)
(*                                                                         *)
(* Time is the value of Date.now() in milliseconds, counted from the       *)
(* construction of the program.  It advances from one pending deadline     *)
(* (timer or network reply) to the next.  Timers that are due at the same  *)
(* millisecond run in the order in which they were armed.                  *)
(*                                                                         *)
(* Values of the source that are reals are kept as integers:               *)
(*   - brightness b in [0, 1] is kept as 100 * b;                          *)
(*   - raw analysis times are whole seconds, normalised times are ms.      *)
(***************************************************************************)
EXTENDS Integers, Sequences, FiniteSets, TLC

VARIABLES
  now,                          \* Date.now()
  timers,                       \* the armed timers of the event loop
  timerSeq,                     \* number of timers armed so far (handles, arming order)
  brightnessTransitionLock,     \* Base.brightnessTransitionLock, per light
  colorTransitionLock,          \* Base.colorTransitionLock, per light
  calls,                        \* activations of transitionBrightness / transitionColor
  started,                      \* Spotify.start() was called
  currentTrack,                 \* Spotify.currentTrack (track id or NoTrack)
  currentTrackAnalysis,         \* Spotify.currentTrackAnalysis (Null or one entry per kind)
  currentTrackProgress,
  currentTrackProgressInterval, \* handle of the progress sampler (0 = null)
  currentTrackStartTime,
  currentTrackStartOffset,
  pingTimeout,                  \* handle of the poll timer (0 = null)
  poll,                         \* the activation of _getCurrentlyPlaying
  emitted,                      \* history: the events emitted so far
  thrown,                       \* history: errors thrown out of callbacks
  epoch,                        \* history: number of _stopTrack calls so far
  pollOutcome,                  \* history: what the last completed poll step did
  analysisReply,                \* history: the last body of getAudioAnalysisForTrack
  listening,                    \* the newSegment handler of main is registered
  segmentTransitioning,         \* main: let segmentTransitioning
  segmentCalls                  \* main: the transitions the pending Promise.all awaits

vars == <<now, timers, timerSeq, brightnessTransitionLock, colorTransitionLock,
          calls, started, currentTrack, currentTrackAnalysis, currentTrackProgress,
          currentTrackProgressInterval, currentTrackStartTime,
          currentTrackStartOffset, pingTimeout, poll, emitted, thrown, epoch,
          pollOutcome, analysisReply, listening, segmentTransitioning,
          segmentCalls>>

----------------------------------------------------------------------------
(* Bounds of the model *)

MaxTime == 3200        \* Spec, SpecLed: the clock stops advancing past this many ms
MaxTimeLong == 5200    \* SpecLong: the same, for the longer runs with fewer inputs
MaxCalls == 2          \* transition calls issued by the test driver of SpecLed
NumLights == 2         \* lightClients.length
MaxTimeNorm == 2000    \* SpecNorm: the clock stops advancing past this many ms
MaxLen == 3            \* SpecNorm: longest interval sequence of an analysis
MaxTimeShow == 3100    \* SpecShow: the clock stops advancing past this many ms
MaxFailures == 1       \* SpecShow: transition steps that fail in a run
MaxStart == 4          \* SpecNorm: latest start of a raw interval, in seconds

(* Program constants *)

commandDelayMs == 50
currentTrackOffsetThreshold == 100
currentTrackProgressIntervalMs == 10
pingTimeoutMs == 1000

Lights == 1..NumLights

NoTrack == "null"      \* currentTrack = null, item = null
Null == <<>>           \* currentTrackAnalysis = null

Abs(x) == IF x < 0 THEN -x ELSE x

----------------------------------------------------------------------------
(* The state as one record, so that the steps of a handler compose. *)

Cur ==
  [now |-> now, timers |-> timers, timerSeq |-> timerSeq,
   brightnessTransitionLock |-> brightnessTransitionLock,
   colorTransitionLock |-> colorTransitionLock, calls |-> calls,
   started |-> started, currentTrack |-> currentTrack,
   currentTrackAnalysis |-> currentTrackAnalysis,
   currentTrackProgress |-> currentTrackProgress,
   currentTrackProgressInterval |-> currentTrackProgressInterval,
   currentTrackStartTime |-> currentTrackStartTime,
   currentTrackStartOffset |-> currentTrackStartOffset,
   pingTimeout |-> pingTimeout, poll |-> poll, emitted |-> emitted,
   thrown |-> thrown, epoch |-> epoch, pollOutcome |-> pollOutcome,
   analysisReply |-> analysisReply, listening |-> listening,
   segmentTransitioning |-> segmentTransitioning, segmentCalls |-> segmentCalls]

Commit(S) ==
  /\ now' = S.now
  /\ timers' = S.timers
  /\ timerSeq' = S.timerSeq
  /\ brightnessTransitionLock' = S.brightnessTransitionLock
  /\ colorTransitionLock' = S.colorTransitionLock
  /\ calls' = S.calls
  /\ started' = S.started
  /\ currentTrack' = S.currentTrack
  /\ currentTrackAnalysis' = S.currentTrackAnalysis
  /\ currentTrackProgress' = S.currentTrackProgress
  /\ currentTrackProgressInterval' = S.currentTrackProgressInterval
  /\ currentTrackStartTime' = S.currentTrackStartTime
  /\ currentTrackStartOffset' = S.currentTrackStartOffset
  /\ pingTimeout' = S.pingTimeout
  /\ poll' = S.poll
  /\ emitted' = S.emitted
  /\ thrown' = S.thrown
  /\ epoch' = S.epoch
  /\ pollOutcome' = S.pollOutcome
  /\ analysisReply' = S.analysisReply
  /\ listening' = S.listening
  /\ segmentTransitioning' = S.segmentTransitioning
  /\ segmentCalls' = S.segmentCalls

----------------------------------------------------------------------------
(* Timers: setTimeout / setInterval / clearTimeout of the runtime. *)

\* A delay below 1 ms is run as 1 ms by the runtime.
TimerDelay(delay) == IF delay < 1 THEN 1 ELSE delay

\* Arms a timer; its handle is the new value of timerSeq.
setTimeout(S, cb, arg, delay) ==
  [S EXCEPT !.timerSeq = @ + 1,
            !.timers = @ \cup {[id |-> S.timerSeq + 1, ord |-> S.timerSeq + 1,
                                cb |-> cb, arg |-> arg,
                                at |-> S.now + TimerDelay(delay),
                                gen |-> S.epoch]}]

\* Cancelling a handle that is not armed (fired, cancelled, null) does nothing.
clearTimeout(S, handle) ==
  [S EXCEPT !.timers = {t \in @ : t.id # handle}]

\* The timers due now, and the one the event loop runs next.
Due == {t \in timers : t.at <= now}

NextTimer == CHOOSE t \in Due : \A u \in Due : t.ord <= u.ord

SetMin(s) == CHOOSE x \in s : \A y \in s : x <= y

----------------------------------------------------------------------------
(* clients/led/base: Base.transitionBrightness and Base.transitionColor *)

\* The activations of transition<kind> on light l that are inside their ramp
\* (between the first step and the release of the lock).
InFlight(cs, l, kind) ==
  {c \in 1..Len(cs) : cs[c].light = l /\ cs[c].kind = kind /\ cs[c].pc \in {"set", "sleep"}}

\* The record of one activation.  sent: the elapsedTime of every setBrightness /
\* setColor call it issued.  History fields: entryLock (the lock as the call
\* found it), entryBusy (a ramp of the same kind was in flight on the light),
\* unlocked (the call has written false to the lock), event (the number of
\* events the engine had emitted when the call was made).
NewCall(S, l, kind, start, end, lengthMs, entryLock) ==
  [light |-> l, kind |-> kind, pc |-> "entered", start |-> start, end |-> end,
   lengthMs |-> lengthMs, startTime |-> S.now, endTime |-> S.now + lengthMs,
   sent |-> <<>>, entryLock |-> entryLock,
   entryBusy |-> InFlight(S.calls, l, kind) # {}, unlocked |-> FALSE,
   event |-> Len(S.emitted)]

\* Mutant of SetLock: one lock per light, shared by both kinds.
SetLock_Shared(S, kind, l, v) ==
  [S EXCEPT !.brightnessTransitionLock[l] = v, !.colorTransitionLock[l] = v]

\* this.<kind>TransitionLock = v
SetLock(S, kind, l, v) ==
  IF kind = "brightness"
  THEN [S EXCEPT !.brightnessTransitionLock[l] = v]
  ELSE [S EXCEPT !.colorTransitionLock[l] = v]

\* The head of the while loop, with currentTime = Date.now(): either the next
\* setBrightness / setColor call is issued (and awaited), or the loop ends and
\* the lock is cleared.
RampLoop(S, c) ==
  LET call == S.calls[c] IN
  IF S.now < call.endTime - commandDelayMs
  THEN [S EXCEPT !.calls[c].pc = "set",
                 !.calls[c].sent = Append(@, S.now - call.startTime)]
  ELSE SetLock([S EXCEPT !.calls[c].pc = "done", !.calls[c].unlocked = TRUE],
               call.kind, call.light, FALSE)

\* The synchronous part of transitionBrightness, up to its first await.
transitionBrightness(S, l, start, end, lengthMs) ==
  LET c == Len(S.calls) + 1
      S1 == [S EXCEPT !.brightnessTransitionLock[l] = TRUE,
                      !.calls = Append(@, NewCall(S, l, "brightness", start, end, lengthMs,
                                                  S.brightnessTransitionLock[l]))]
  IN IF start < 0 \/ start > 100 THEN [S1 EXCEPT !.calls[c].pc = "threw"]
     ELSE IF end < 0 \/ end > 100 THEN [S1 EXCEPT !.calls[c].pc = "threw"]
     ELSE RampLoop(S1, c)

\* The synchronous part of transitionColor, up to its first await.
transitionColor(S, l, start, end, lengthMs) ==
  LET c == Len(S.calls) + 1
      S1 == [S EXCEPT !.colorTransitionLock[l] = TRUE,
                      !.calls = Append(@, NewCall(S, l, "color", start, end, lengthMs,
                                                  S.colorTransitionLock[l]))]
  IN RampLoop(S1, c)

\* main, the continuation of await Promise.all([...]): once every transition
\* of the accepted segment has ended, segmentTransitioning = false; if one of
\* them rejects, Promise.all rejects and the assignment is never reached.
Settle(S) ==
  IF S.segmentCalls = {} THEN S
  ELSE IF \E c \in S.segmentCalls : S.calls[c].pc = "threw"
  THEN [S EXCEPT !.segmentCalls = {}]
  ELSE IF \A c \in S.segmentCalls : S.calls[c].pc = "done"
  THEN [S EXCEPT !.segmentCalls = {}, !.segmentTransitioning = FALSE]
  ELSE S

\* await this.setBrightness(..) / this.setColor(..) resolved: await sleep(commandDelayMs)
SetResolved(c) ==
  /\ c \in 1..Len(calls)
  /\ calls[c].pc = "set"
  /\ Commit(setTimeout([Cur EXCEPT !.calls[c].pc = "sleep"], "sleep", c, commandDelayMs))

\* await this.setBrightness(..) / this.setColor(..) rejected (the driver's write
\* failed): the rejection leaves the transition through the await.
SetRejected(c) ==
  /\ c \in 1..Len(calls)
  /\ calls[c].pc = "set"
  /\ Commit(Settle([Cur EXCEPT !.calls[c].pc = "threw"]))

\* sleep() is over: currentTime = Date.now(), back to the head of the loop.
SleepFire ==
  /\ Due # {}
  /\ NextTimer.cb = "sleep"
  /\ Commit(Settle(RampLoop(clearTimeout(Cur, NextTimer.id), NextTimer.arg)))

----------------------------------------------------------------------------
(* Inputs of the transition calls issued by the driver of SpecLed *)

BrightnessInputs == {<<0, 100>>, <<100, 0>>, <<150, 0>>, <<0, 150>>}
LengthInputs == {40, 100, 120}

CallBrightness(l, start, end, lengthMs) ==
  /\ Len(calls) < MaxCalls
  /\ Commit(transitionBrightness(Cur, l, start, end, lengthMs))

CallColor(l, lengthMs) ==
  /\ Len(calls) < MaxCalls
  /\ Commit(transitionColor(Cur, l, 0, 1, lengthMs))

----------------------------------------------------------------------------
(* clients/spotify: the data the remote service can answer with *)

Tracks == {"A", "B"}

\* SpotifyApi.SingleTrackResponse.duration_ms
duration_ms(track) == IF track = "A" THEN 4000 ELSE 3000

\* The five interval sequences of an AudioAnalysis, in the order
\* bars, beats, sections, segments, tatums.
Kinds == <<"bars", "beats", "sections", "segments", "tatums">>

KindIds == 1..5

Iv(start, duration) == [start |-> start, duration |-> duration]

\* A Segment: a TimeInterval with loudness_start (dB) and the 12 pitches.
\* A pitch p in [0, 1] is kept as 100 * p; the first six pitch classes have
\* the value lo, the last six the value hi.
Seg(start, duration, loudness_start, lo, hi) ==
  [start |-> start, duration |-> duration, loudness_start |-> loudness_start,
   pitches |-> [p \in 1..12 |-> IF p <= 6 THEN lo ELSE hi]]

\* next = null of a newSegment event
NoSegment == Seg(-1, 0, 0, 0, 0)

\* The raw analysis of a track, in seconds.  Track A: contiguous beats; tatums
\* that start late and end early.  Track B: beats with a gap.
RawAnalysis(track) ==
  IF track = "A"
  THEN << <<Iv(0, 2), Iv(2, 2)>>,
          <<Iv(0, 1), Iv(1, 1), Iv(2, 1), Iv(3, 1)>>,
          <<Iv(0, 4)>>,
          <<Seg(0, 1, -60, 12, 84), Seg(1, 2, -10, 24, 48), Seg(3, 1, -30, 96, 0)>>,
          <<Iv(1, 1), Iv(2, 1)>> >>
  ELSE << <<Iv(0, 3)>>,
          <<Iv(0, 1), Iv(2, 1)>>,
          <<Iv(0, 1), Iv(1, 2)>>,
          <<Seg(0, 2, -20, 36, 60), Seg(2, 1, -50, 72, 12)>>,
          <<Iv(0, 1), Iv(1, 1), Iv(2, 1)>> >>

\* An analysis whose segments sequence is empty.
EmptyAnalysis(track) == [RawAnalysis(track) EXCEPT ![4] = <<>>]

\* Raw interval sequences of up to MaxLen intervals, ordered by start, with
\* gaps and overlaps, in seconds.
RawIntervals == [start : 0..MaxStart, duration : {1, 2}]

RawSeqs ==
  {q \in UNION {[1..n -> RawIntervals] : n \in 1..MaxLen} :
     \A i \in 1..(Len(q) - 1) : q[i].start < q[i + 1].start}

Latencies == {0, 34}             \* time a request to the service takes, ms
FetchLatencies == {0, 150}       \* time the analysis request of a track change takes, ms
StartPositions == {0, 1500, 2990}      \* progress_ms reported for a track that is not the current one
ShowPositions == {0, 2900}       \* the same, for SpecShow
Drifts == {-101, 0, 100, 101}    \* remote minus local position reported for the current track

----------------------------------------------------------------------------
(* index: the newSegment handler of main *)

RECURSIVE SumSeq(_)
SumSeq(q) == IF q = <<>> THEN 0 ELSE Head(q) + SumSeq(Tail(q))

\* average(arr); the pitches of the model make the quotient exact.
average(arr) == SumSeq(arr) \div Len(arr)

\* arr.slice(start, end), with indices counted from 0
slice(arr, start, end) == SubSeq(arr, start + 1, end)

\* The colour the configured interpolator gives for t, kept as the position
\* 100 * t on the gradient from Settings.colors.start to Settings.colors.end.
interpolator(t) == t

pitchesInLight == 12 \div NumLights

\* Mutant of Colors: every slice starts at pitch class 0.
Colors_FromZero(pitches) ==
  [i \in Lights |->
     interpolator(average(slice(pitches, 0, pitchesInLight * i)))]

\* currentColors / nextColors: the colour of every light for the pitches.
Colors(pitches) ==
  [i \in Lights |->
     LET end == pitchesInLight * i
         start == end - pitchesInLight
     IN interpolator(average(slice(pitches, start, end)))]

\* Mutant of ColorCalls: only the first light is given a colour transition.
ColorCalls_FirstLightOnly(S, l, currentColors, nextColors, lengthMs) ==
  IF l > 1 THEN S
  ELSE transitionColor(S, l, currentColors[l], nextColors[l], lengthMs)

\* lightClients.map(light => light.transitionColor(..)), from light l on
RECURSIVE ColorCalls(_, _, _, _, _)
ColorCalls(S, l, currentColors, nextColors, lengthMs) ==
  IF l > NumLights THEN S
  ELSE ColorCalls(transitionColor(S, l, currentColors[l], nextColors[l], lengthMs),
                  l + 1, currentColors, nextColors, lengthMs)

\* lightClients.map(lights => lights.transitionBrightness(..)), from light l on
RECURSIVE BrightnessCalls(_, _, _, _, _)
BrightnessCalls(S, l, start, end, lengthMs) ==
  IF l > NumLights THEN S
  ELSE BrightnessCalls(transitionBrightness(S, l, start, end, lengthMs),
                       l + 1, start, end, lengthMs)

\* Mutant of onNewSegment: the segmentTransitioning guard is not consulted.
onNewSegment_NoGuard(S, current, next) ==
  IF next.start = -1 THEN S
  ELSE
    LET lengthMs == (current.duration * 95) \div 100
        S1 == [S EXCEPT !.segmentTransitioning = TRUE]
        S2 == ColorCalls(S1, 1, Colors(current.pitches), Colors(next.pitches), lengthMs)
        S3 == BrightnessCalls(S2, 1, Abs(current.loudness_start + 50),
                              Abs(next.loudness_start + 50), lengthMs)
    IN Settle([S3 EXCEPT !.segmentCalls = (Len(S.calls) + 1)..Len(S3.calls)])

\* Mutant of onNewSegment: next is not checked before next.pitches is read
\* (a TypeError after the guard is set).
onNewSegment_NoNextCheck(S, current, next) ==
  IF S.segmentTransitioning THEN S
  ELSE IF next.start = -1 THEN [S EXCEPT !.segmentTransitioning = TRUE]
  ELSE
    LET lengthMs == (current.duration * 95) \div 100
        S1 == [S EXCEPT !.segmentTransitioning = TRUE]
        S2 == ColorCalls(S1, 1, Colors(current.pitches), Colors(next.pitches), lengthMs)
        S3 == BrightnessCalls(S2, 1, Abs(current.loudness_start + 50),
                              Abs(next.loudness_start + 50), lengthMs)
    IN Settle([S3 EXCEPT !.segmentCalls = (Len(S.calls) + 1)..Len(S3.calls)])

\* The handler up to its await Promise.all([...]): every transitionColor and
\* then every transitionBrightness call runs up to its own first await.  The
\* durations of the model make duration * 0.95 a whole number of ms.
onNewSegment(S, current, next) ==
  IF S.segmentTransitioning \/ next.start = -1 THEN S
  ELSE
    LET lengthMs == (current.duration * 95) \div 100
        S1 == [S EXCEPT !.segmentTransitioning = TRUE]
        S2 == ColorCalls(S1, 1, Colors(current.pitches), Colors(next.pitches), lengthMs)
        S3 == BrightnessCalls(S2, 1, Abs(current.loudness_start + 50),
                              Abs(next.loudness_start + 50), lengthMs)
    IN Settle([S3 EXCEPT !.segmentCalls = (Len(S.calls) + 1)..Len(S3.calls)])

----------------------------------------------------------------------------
(* clients/spotify: Spotify *)

\* Mutant of normalizeIntervals: the duration in milliseconds is computed from
\* the start (duration: interval.start * 1000).
normalizeIntervals_DurationFromStart(track, intervals) ==
  [i \in 1..Len(intervals) |->
     [intervals[i] EXCEPT
        !.start = (IF i = 1 THEN 0 ELSE intervals[i].start) * 1000,
        !.duration = (IF i = 1 THEN 0 ELSE intervals[i].start) * 1000]]

\* The first interval is made to start at zero, the last to end with the
\* track, and every time is converted to milliseconds.  (The quotient
\* duration_ms / 1000 is kept exact.)
normalizeIntervals(track, intervals) ==
  LET first == [intervals EXCEPT ![1].duration = intervals[1].start + intervals[1].duration,
                                 ![1].start = 0]
      n == Len(first)
  IN [i \in 1..n |->
        [first[i] EXCEPT
           !.start = first[i].start * 1000,
           !.duration = IF i = n THEN duration_ms(track) - first[i].start * 1000
                        ELSE first[i].duration * 1000]]

\* An emitted event, as a handler registered for it observes it.  History
\* fields: at (Date.now()), gen and epoch, anchor (currentTrackStartTime at
\* the emit, 0 = not anchored) and armed (interval timers armed at the emit).
Event(S, name, track, cur, nxt, gen) ==
  [name |-> name, track |-> track, at |-> S.now, cur |-> cur, nxt |-> nxt,
   gen |-> gen, epoch |-> S.epoch, anchor |-> S.currentTrackStartTime,
   armed |-> Cardinality({t \in S.timers : t.cb = "fire"})]

emit(S, ev) == [S EXCEPT !.emitted = Append(@, ev)]

Throw(S, where, message) == [S EXCEPT !.thrown = @ \cup {<<where, message>>}]

EventName(kind) ==
  CASE kind = 1 -> "newBar"
    [] kind = 2 -> "newBeat"
    [] kind = 3 -> "newSection"
    [] kind = 4 -> "newSegment"
    [] kind = 5 -> "newTatum"

_getInterval(S, kind) == S.currentTrackAnalysis[kind]

_getActiveInterval(S, kind) ==
  LET interval == _getInterval(S, kind)
  IN interval.intervals[interval.activeIndex + 1]

_calculateNextTimeout(S, kind) ==
  LET activeInterval == _getActiveInterval(S, kind)
  IN activeInterval.duration - (S.currentTrackProgress - activeInterval.start)

\* Mutant of _stageInterval: the handle of the new timer is not stored.
_stageInterval_DropsHandle(S, kind) ==
  setTimeout(S, "fire", kind, _calculateNextTimeout(S, kind))

_stageInterval(S, kind) ==
  LET S1 == setTimeout(S, "fire", kind, _calculateNextTimeout(S, kind))
  IN [S1 EXCEPT !.currentTrackAnalysis[kind].nextIntervalTimeout = S1.timerSeq]

\* Mutant of _incrementInterval: the next timer is staged but activeIndex is
\* not advanced.
_incrementInterval_NoAdvance(S, kind) ==
  LET interval == _getInterval(S, kind) IN
  IF interval.activeIndex = Len(interval.intervals) - 1
  THEN S
  ELSE _stageInterval(S, kind)

\* Mutant of _incrementInterval: no test for the last interval.
_incrementInterval_PastLast(S, kind) ==
  [_stageInterval(S, kind) EXCEPT !.currentTrackAnalysis[kind].activeIndex = @ + 1]

\* Mutant of _incrementInterval: at the last interval the timer is staged
\* again.
_incrementInterval_RearmsLast(S, kind) ==
  LET interval == _getInterval(S, kind) IN
  IF interval.activeIndex = Len(interval.intervals) - 1
  THEN _stageInterval(S, kind)
  ELSE [_stageInterval(S, kind) EXCEPT !.currentTrackAnalysis[kind].activeIndex = @ + 1]

\* Mutant of _incrementInterval: the cursor skips an interval when two or
\* more are left.
_incrementInterval_SkipsOne(S, kind) ==
  LET interval == _getInterval(S, kind) IN
  IF interval.activeIndex = Len(interval.intervals) - 1
  THEN S
  ELSE [_stageInterval(S, kind) EXCEPT
          !.currentTrackAnalysis[kind].activeIndex =
             IF @ + 2 < Len(interval.intervals) THEN @ + 2 ELSE @ + 1]

_incrementInterval(S, kind) ==
  LET interval == _getInterval(S, kind) IN
  IF interval.activeIndex = Len(interval.intervals) - 1
  THEN S
  ELSE [_stageInterval(S, kind) EXCEPT !.currentTrackAnalysis[kind].activeIndex = @ + 1]

\* The callback of an interval timer; gen is the epoch in which it was armed.
_fireInterval(S, kind, gen) ==
  IF S.currentTrackAnalysis = Null
  THEN Throw(S, "_fireInterval", "current track not set!")
  ELSE LET interval == _getInterval(S, kind)
           activeIndex == interval.activeIndex
           nextIndex == IF activeIndex + 1 < Len(interval.intervals)
                        THEN activeIndex + 1 ELSE -1
           S1 == emit(S, Event(S, EventName(kind), S.currentTrack, activeIndex, nextIndex, gen))
           S2 == IF kind = 4 /\ S.listening
                 THEN onNewSegment(S1, interval.intervals[activeIndex + 1],
                                   IF nextIndex = -1 THEN NoSegment
                                   ELSE interval.intervals[nextIndex + 1])
                 ELSE S1
       IN _incrementInterval(S2, kind)

\* The indices i whose interval contains the position.
Containing(intervals, position) ==
  {i \in 0..(Len(intervals) - 1) :
     /\ position >= intervals[i + 1].start
     /\ position < intervals[i + 1].start + intervals[i + 1].duration}

_syncInterval(S, kind) ==
  LET found == Containing(_getInterval(S, kind).intervals, S.currentTrackProgress)
      S1 == IF found = {} THEN S
            ELSE [S EXCEPT !.currentTrackAnalysis[kind].activeIndex = SetMin(found)]
  IN _stageInterval(S1, kind)

_calculateTrackProgress(S) ==
  IF S.currentTrackStartTime = 0
  THEN Throw(S, "_calculateTrackProgress", "track hasn't started!")
  ELSE [S EXCEPT !.currentTrackProgress =
                     S.currentTrackStartOffset + (S.now - S.currentTrackStartTime)]

_pingSpotify(S) ==
  LET S1 == setTimeout(S, "ping", 0, pingTimeoutMs)
  IN [S1 EXCEPT !.pingTimeout = S1.timerSeq]

\* Mutant of StoppedHandles: the loop over the kinds misses the last one.
StoppedHandles_MissesLast(S) ==
  {S.currentTrackProgressInterval}
    \cup (IF S.currentTrackAnalysis = Null THEN {}
          ELSE {S.currentTrackAnalysis[k].nextIntervalTimeout : k \in 1..4})

\* The handles _stopTrack clears: the progress sampler and every kind's
\* nextIntervalTimeout (null handles are skipped, which clears nothing).
StoppedHandles(S) ==
  {S.currentTrackProgressInterval}
    \cup (IF S.currentTrackAnalysis = Null THEN {}
          ELSE {S.currentTrackAnalysis[k].nextIntervalTimeout : k \in KindIds})

\* Mutant of _stopTrack: the progress sampler is left armed.
_stopTrack_KeepsSampler(S) ==
  [S EXCEPT !.timers = {t \in @ : t.id \notin (StoppedHandles(S) \ {S.currentTrackProgressInterval})},
            !.epoch = @ + 1]

\* Mutant of _stopTrack: the interval timers are left armed.
_stopTrack_KeepsIntervalTimers(S) ==
  [S EXCEPT !.timers = {t \in @ : t.id # S.currentTrackProgressInterval},
            !.epoch = @ + 1]

\* Mutant of _stopTrack: no timer is cancelled.
_stopTrack_CancelsNothing(S) == [S EXCEPT !.epoch = @ + 1]

_stopTrack(S) ==
  [S EXCEPT !.timers = {t \in @ : t.id \notin StoppedHandles(S)},
            !.epoch = @ + 1]

\* Mutant of _clearTrack: currentTrack is not reset.
_clearTrack_KeepsTrack(S) ==
  [S EXCEPT !.currentTrackAnalysis = Null,
            !.currentTrackProgress = 0,
            !.currentTrackStartTime = 0]

\* Mutant of _clearTrack: currentTrackAnalysis is not reset.
_clearTrack_KeepsAnalysis(S) ==
  [S EXCEPT !.currentTrack = NoTrack,
            !.currentTrackProgress = 0,
            !.currentTrackStartTime = 0]

_clearTrack(S) ==
  [S EXCEPT !.currentTrack = NoTrack,
            !.currentTrackAnalysis = Null,
            !.currentTrackProgress = 0,
            !.currentTrackStartTime = 0]

Rejected(S, where, message) ==
  [Throw(S, where, message) EXCEPT !.poll.pc = "rejected"]

\* The five _syncInterval calls of _startTrack, in its order.
SyncAll(S) ==
  _syncInterval(_syncInterval(_syncInterval(_syncInterval(_syncInterval(
    S, 1), 2), 3), 4), 5)

\* Mutant of _startTrack: currentTrackStartOffset keeps its old value.
_startTrack_KeepsOffset(S, start) ==
  IF S.currentTrack = NoTrack \/ S.currentTrackAnalysis = Null
  THEN Rejected(S, "_startTrack", "current track not set!")
  ELSE
    LET S1 == [S EXCEPT !.currentTrackProgress = start,
                        !.currentTrackStartTime = S.now]
        S2 == setTimeout(S1, "progress", 0, currentTrackProgressIntervalMs)
    IN SyncAll([S2 EXCEPT !.currentTrackProgressInterval = S2.timerSeq])

_startTrack(S, start) ==
  IF S.currentTrack = NoTrack
  THEN Rejected(S, "_startTrack", "current track not set!")
  ELSE IF S.currentTrackAnalysis = Null
  THEN Rejected(S, "_startTrack", "current track not set!")
  ELSE
    LET S1 == [S EXCEPT !.currentTrackStartOffset = start,
                        !.currentTrackProgress = start,
                        !.currentTrackStartTime = S.now]
        S2 == setTimeout(S1, "progress", 0, currentTrackProgressIntervalMs)
        S3 == [S2 EXCEPT !.currentTrackProgressInterval = S2.timerSeq]
    IN SyncAll(S3)

Idle == [pc |-> "idle", now0 |-> 0, due |-> 0, item |-> NoTrack, progressMs |-> 0]

Outcome(S, kind, local, remote) ==
  [S EXCEPT !.pollOutcome = [kind |-> kind, local |-> local, remote |-> remote]]

\* The return of an async function that has not rejected: _pingSpotify().
Return(S) ==
  IF S.poll.pc = "rejected" THEN S ELSE _pingSpotify([S EXCEPT !.poll = Idle])

\* Mutant of OutOfSync: a difference equal to the threshold counts as drift.
OutOfSync_Inclusive(local, remote) == Abs(local - remote) >= currentTrackOffsetThreshold

\* The drift test of a same-track poll.
OutOfSync(local, remote) == Abs(local - remote) > currentTrackOffsetThreshold

\* _getCurrentlyPlaying from the answer of getMyCurrentPlayingTrack on: either to
\* its return, or to the first await of _getTrack (the request takes lat ms).
_getCurrentlyPlaying(S, isPlaying, item, resProgressMs, lat) ==
  IF ~isPlaying \/ item = NoTrack
  THEN LET S1 == IF S.currentTrack # NoTrack
                 THEN emit(S, Event(S, "trackStopped", S.currentTrack, -1, -1, S.epoch))
                 ELSE S
       IN Return(Outcome(_clearTrack(_stopTrack(S1)), "nothing",
                         S.currentTrackProgress, 0))
  ELSE
    LET progressMs == resProgressMs + (S.now - S.poll.now0) IN
    IF S.currentTrack = NoTrack \/ S.currentTrack # item
    THEN [_clearTrack(_stopTrack(S)) EXCEPT
            !.poll = [pc |-> "track", now0 |-> S.poll.now0, due |-> S.now + lat,
                      item |-> item, progressMs |-> progressMs]]
    ELSE IF OutOfSync(S.currentTrackProgress, progressMs)
    THEN Return(Outcome(_startTrack(_stopTrack(S), progressMs), "drift",
                        S.currentTrackProgress, progressMs))
    ELSE Return(Outcome(S, "insync", S.currentTrackProgress, progressMs))

\* _getTrack from the answer of getAudioAnalysisForTrack on, then the rest of
\* _getCurrentlyPlaying: _startTrack(progressMs) and _pingSpotify().
\* normalizeIntervals reads normalizedIntervals[0].start: on an empty sequence
\* that is a TypeError, thrown before currentTrackAnalysis is assigned.
_getTrack(S, analysis) ==
  IF \E k \in KindIds : Len(analysis[k]) = 0
  THEN Outcome(Rejected([S EXCEPT !.analysisReply = analysis],
                        "normalizeIntervals", "TypeError: cannot read properties of undefined"),
               "invalid", 0, S.poll.progressMs)
  ELSE
  LET track == S.currentTrack
      S1 == [S EXCEPT !.analysisReply = analysis,
                      !.currentTrackAnalysis =
                 [k \in KindIds |->
                    [activeIndex |-> 0,
                     intervals |-> normalizeIntervals(track, analysis[k]),
                     nextIntervalTimeout |-> 0]]]
      S2 == emit(S1, Event(S1, "trackChange", track, -1, -1, S1.epoch))
  IN Return(Outcome(_startTrack(S2, S.poll.progressMs), "change",
                    0, S.poll.progressMs))

----------------------------------------------------------------------------
(* clients/spotify: the callbacks the event loop runs *)

\* Spotify.start()
Start ==
  /\ ~started
  /\ Commit(_pingSpotify([Cur EXCEPT !.started = TRUE]))

\* main(): the newSegment handler is registered, then spotifyClient.start().
Main ==
  /\ ~started
  /\ Commit(_pingSpotify([Cur EXCEPT !.started = TRUE, !.listening = TRUE]))

\* The poll timer fires: _getCurrentlyPlaying records now and requests the
\* playback state.
PingFire(lat) ==
  /\ Due # {}
  /\ NextTimer.cb = "ping"
  /\ Commit([clearTimeout(Cur, NextTimer.id) EXCEPT
               !.poll = [pc |-> "playback", now0 |-> now, due |-> now + lat,
                         item |-> NoTrack, progressMs |-> 0]])

\* The progress sampler (setInterval) fires and is armed again.
ProgressFire ==
  /\ Due # {}
  /\ NextTimer.cb = "progress"
  /\ LET t == NextTimer
         S1 == [Cur EXCEPT !.timerSeq = @ + 1,
                           !.timers = (@ \ {t}) \cup
                              {[t EXCEPT !.ord = timerSeq + 1,
                                         !.at = now + currentTrackProgressIntervalMs]}]
     IN Commit(_calculateTrackProgress(S1))

\* An interval timer fires.
IntervalFire ==
  /\ Due # {}
  /\ NextTimer.cb = "fire"
  /\ Commit(_fireInterval(clearTimeout(Cur, NextTimer.id), NextTimer.arg, NextTimer.gen))

ReplyDue(pc) ==
  /\ poll.pc = pc
  /\ poll.due <= now
  /\ Due = {}

\* getMyCurrentPlayingTrack rejects: _getCurrentlyPlaying rejects.
PlaybackFailed ==
  /\ ReplyDue("playback")
  /\ Commit(Outcome(Rejected(Cur, "_getCurrentlyPlaying", "getMyCurrentPlayingTrack failed"),
                    "failed", currentTrackProgress, 0))

\* The service reports that nothing is playing.
NothingPlaying ==
  /\ ReplyDue("playback")
  /\ Commit(_getCurrentlyPlaying(Cur, FALSE, NoTrack, 0, 0))

\* The service reports a track that is not the current one.
PlayingOther(item, resProgressMs, lat) ==
  /\ ReplyDue("playback")
  /\ item # currentTrack
  /\ Commit(_getCurrentlyPlaying(Cur, TRUE, item, resProgressMs, lat))

\* The service reports the current track, at the local position plus drift.
PlayingSame(drift) ==
  /\ ReplyDue("playback")
  /\ currentTrack # NoTrack
  /\ currentTrackProgress + drift - (now - poll.now0) >= 0
  /\ Commit(_getCurrentlyPlaying(Cur, TRUE, currentTrack,
                                 currentTrackProgress + drift - (now - poll.now0), 0))

\* getTrack answers: this.currentTrack = track, then the analysis is requested.
TrackFetched(lat) ==
  /\ ReplyDue("track")
  /\ Commit([Cur EXCEPT !.currentTrack = poll.item,
                        !.poll.pc = "analysis",
                        !.poll.due = now + lat])

TrackFailed ==
  /\ ReplyDue("track")
  /\ Commit(Outcome(Rejected(Cur, "_getTrack", "getTrack failed"), "failed", 0, 0))

AnalysisFetched ==
  /\ ReplyDue("analysis")
  /\ Commit(_getTrack(Cur, RawAnalysis(currentTrack)))

\* getAudioAnalysisForTrack answers with an empty segments sequence.
AnalysisEmpty ==
  /\ ReplyDue("analysis")
  /\ Commit(_getTrack(Cur, EmptyAnalysis(currentTrack)))

\* getAudioAnalysisForTrack answers without one of the five sequences:
\* normalizeIntervals spreads undefined, a TypeError.
AnalysisIncomplete ==
  /\ ReplyDue("analysis")
  /\ Commit(Outcome(Rejected(Cur, "normalizeIntervals", "TypeError: intervals is not iterable"),
                    "invalid", 0, poll.progressMs))

\* getAudioAnalysisForTrack answers with the sequence raw for every kind.
AnalysisAny(raw) ==
  /\ ReplyDue("analysis")
  /\ Commit(_getTrack(Cur, [k \in KindIds |-> raw]))

AnalysisFailed ==
  /\ ReplyDue("analysis")
  /\ Commit(Outcome(Rejected(Cur, "_getTrack", "getAudioAnalysisForTrack failed"),
                    "failed", 0, 0))

----------------------------------------------------------------------------
(* The clock *)

Awaiting == poll.pc \in {"playback", "track", "analysis"}

Deadlines == {t.at : t \in timers} \cup (IF Awaiting THEN {poll.due} ELSE {})

\* Nothing is runnable now: the clock moves to the next deadline.
Advance(limit) ==
  /\ Due = {}
  /\ \A c \in 1..Len(calls) : calls[c].pc # "set"
  /\ Awaiting => poll.due > now
  /\ Deadlines # {}
  /\ SetMin(Deadlines) <= limit
  /\ Commit([Cur EXCEPT !.now = SetMin(Deadlines)])

----------------------------------------------------------------------------
Init ==
  /\ now = 0
  /\ timers = {}
  /\ timerSeq = 0
  /\ brightnessTransitionLock = [l \in Lights |-> FALSE]
  /\ colorTransitionLock = [l \in Lights |-> FALSE]
  /\ calls = <<>>
  /\ started = FALSE
  /\ currentTrack = NoTrack
  /\ currentTrackAnalysis = Null
  /\ currentTrackProgress = 0
  /\ currentTrackProgressInterval = 0
  /\ currentTrackStartTime = 0
  /\ currentTrackStartOffset = 0
  /\ pingTimeout = 0
  /\ poll = Idle
  /\ emitted = <<>>
  /\ thrown = {}
  /\ epoch = 0
  /\ pollOutcome = [kind |-> "none", local |-> 0, remote |-> 0]
  /\ analysisReply = Null
  /\ listening = FALSE
  /\ segmentTransitioning = FALSE
  /\ segmentCalls = {}

NextLed ==
  \/ \E l \in Lights, b \in BrightnessInputs, len \in LengthInputs :
       CallBrightness(l, b[1], b[2], len)
  \/ \E l \in Lights, len \in LengthInputs : CallColor(l, len)
  \/ \E c \in 1..MaxCalls : SetResolved(c)
  \/ \E c \in 1..MaxCalls : SetRejected(c)
  \/ SleepFire
  \/ Advance(MaxTime)

SpecLed == Init /\ [][NextLed]_vars

Next ==
  \/ Start
  \/ \E lat \in Latencies : PingFire(lat)
  \/ ProgressFire
  \/ IntervalFire
  \/ PlaybackFailed
  \/ NothingPlaying
  \/ \E item \in Tracks, p \in StartPositions, lat \in Latencies : PlayingOther(item, p, lat)
  \/ \E d \in Drifts : PlayingSame(d)
  \/ \E lat \in Latencies : TrackFetched(lat)
  \/ TrackFailed
  \/ AnalysisFetched
  \/ AnalysisEmpty
  \/ AnalysisIncomplete
  \/ AnalysisFailed
  \/ Advance(MaxTime)

Spec == Init /\ [][Next]_vars

\* The same program over a longer time, with fewer answers of the service:
\* no latency, tracks reported from position 0, the current track reported in
\* sync or 101 ms ahead.
NextLong ==
  \/ Start
  \/ PingFire(0)
  \/ ProgressFire
  \/ IntervalFire
  \/ PlaybackFailed
  \/ NothingPlaying
  \/ \E item \in Tracks : PlayingOther(item, 0, 0)
  \/ \E d \in {-101, 0, 101} : PlayingSame(d)
  \/ \E lat \in FetchLatencies : TrackFetched(lat)
  \/ TrackFailed
  \/ AnalysisFetched
  \/ AnalysisEmpty
  \/ AnalysisIncomplete
  \/ AnalysisFailed
  \/ Advance(MaxTimeLong)

SpecLong == Init /\ [][NextLong]_vars

\* The same program with every raw interval sequence of RawSeqs as the
\* analysis of a track: the inputs of normalizeIntervals.
NextNorm ==
  \/ Start
  \/ PingFire(0)
  \/ ProgressFire
  \/ IntervalFire
  \/ NothingPlaying
  \/ \E item \in Tracks : PlayingOther(item, 0, 0)
  \/ TrackFetched(0)
  \/ \E raw \in RawSeqs : AnalysisAny(raw)
  \/ Advance(MaxTimeNorm)

SpecNorm == Init /\ [][NextNorm]_vars

\* The setBrightness / setColor calls that have not been answered.
Pending == {c \in DOMAIN calls : calls[c].pc = "set"}

\* The lights answer their commands in the order in which they were issued.
StepDone ==
  /\ Pending # {}
  /\ SetResolved(SetMin(Pending))

\* The light of a transition is found disconnected: the first command of
\* the transition fails (at most MaxFailures times in a run).
StepFails ==
  /\ Pending # {}
  /\ Cardinality({d \in DOMAIN calls : calls[d].pc = "threw"}) < MaxFailures
  /\ Len(calls[SetMin(Pending)].sent) = 1
  /\ SetRejected(SetMin(Pending))

\* The whole program: main registers the newSegment handler on the engine and
\* starts it; the handler drives the transitions of every light.
NextShow ==
  \/ Main
  \/ PingFire(0)
  \/ ProgressFire
  \/ IntervalFire
  \/ NothingPlaying
  \/ \E item \in Tracks, p \in ShowPositions : PlayingOther(item, p, 0)
  \/ PlayingSame(0)
  \/ TrackFetched(0)
  \/ AnalysisFetched
  \/ StepDone
  \/ StepFails
  \/ SleepFire
  \/ Advance(MaxTimeShow)

SpecShow == Init /\ [][NextShow]_vars

----------------------------------------------------------------------------
(* The newSegment handler driven by events with arbitrary segment payloads *)

MaxSegments == 1                 \* newSegment events the handler accepts
MaxTimeSeg == 400                \* horizon of SpecSeg, ms

\* loudness_start of a segment, dB; the analysis reply does not bound it.
LoudnessInputs == {-60, -10, 60}

\* duration of a segment, ms
SegmentDurations == {200}

\* A pitches vector in which one pitch class sounds.
OneHot(p) == [q \in 1..12 |-> IF q = p THEN 12 ELSE 0]

\* this.emit('newSegment', current, next) reaching the handler of main.
SegmentEvent(current, next) ==
  /\ Len(calls) < MaxSegments * 2 * NumLights
  /\ Commit(onNewSegment(Cur, current, next))

NextSeg ==
  \/ \E d \in SegmentDurations, l1 \in LoudnessInputs, l2 \in LoudnessInputs, p \in 1..12 :
       SegmentEvent([start |-> 0, duration |-> d, loudness_start |-> l1,
                     pitches |-> OneHot(p)],
                    [start |-> d, duration |-> d, loudness_start |-> l2,
                     pitches |-> OneHot(13 - p)])
  \/ StepDone
  \/ SleepFire
  \/ Advance(MaxTimeSeg)

SpecSeg == Init /\ [][NextSeg]_vars

----------------------------------------------------------------------------
(* Claims about the transition engine, checked under SpecLed *)

\* C1 (drop policy): a transitionBrightness / transitionColor call made while a
\* transition of the same kind is in flight on the same light (its lock is
\* true) performs nothing: it issues no setBrightness / setColor call and it
\* never writes the lock held by the first call.
C1_DropPolicy ==
  \A c \in 1..Len(calls) :
    (calls[c].entryBusy /\ calls[c].entryLock)
      => (calls[c].sent = <<>> /\ ~calls[c].unlocked)

\* C2 (mutual exclusion of ramps): on every light at most one brightness ramp
\* and at most one colour ramp is executing.
C2_RampMutualExclusion ==
  \A l \in Lights : \A kind \in {"brightness", "color"} :
    Cardinality(InFlight(calls, l, kind)) <= 1

----------------------------------------------------------------------------
(* Claims about the synchronisation engine *)

IntervalEvents == {EventName(k) : k \in KindIds}

FireTimers(ts) == {t \in ts : t.cb = "fire"}

PollTimers(ts) == {t \in ts : t.cb = "ping"}

\* The step in which a poll of the current track ends (drift test included).
SameTrackPoll ==
  /\ poll.pc = "playback"
  /\ poll'.pc = "idle"
  /\ pollOutcome'.kind \in {"drift", "insync"}

\* The step in which a poll that found nothing playing ends.
NothingPlayingPoll ==
  /\ poll.pc = "playback"
  /\ poll'.pc = "idle"
  /\ pollOutcome'.kind = "nothing"

Count(events, name) == Len(SelectSeq(events, LAMBDA e : e.name = name))

\* C3 (no stale timer): every interval event is emitted by a timer armed
\* after the last cancellation (_stopTrack of a re-anchor, track change or
\* stop), no timer armed before it is left armed, and none fires into a
\* cleared engine.
C3_NoStaleTimer ==
  /\ \A i \in 1..Len(emitted) :
       emitted[i].name \in IntervalEvents => emitted[i].gen = emitted[i].epoch
  /\ \A t \in FireTimers(timers) : t.gen = epoch
  /\ \A e \in thrown : e[1] # "_fireInterval"

\* C3 witness: interval events were emitted both before and after a re-anchor
\* that cancelled armed timers.
C3_Witness ==
  \E i, j \in 1..Len(emitted) :
    /\ i < j
    /\ emitted[i].name \in IntervalEvents
    /\ emitted[j].name \in IntervalEvents
    /\ emitted[i].epoch < emitted[j].epoch

\* C4 (the poll loop never stops): after start() there is always a poll tick
\* in flight or a next one scheduled, whatever fetch of a tick fails.
C4_PollLoopAlive ==
  started => (Awaiting \/ PollTimers(timers) # {})

\* C5 (poll ticks are serialised): after start() every tick schedules exactly
\* one next tick, once its work is over: at any time exactly one of "a tick is
\* in flight" and "one poll timer is pending" holds.
C5_PollSerialized ==
  started => Cardinality(PollTimers(timers)) + (IF Awaiting THEN 1 ELSE 0) = 1

C7_InSyncFrame ==
  [][(SameTrackPoll /\ Abs(pollOutcome'.local - pollOutcome'.remote) <= currentTrackOffsetThreshold)
       => /\ UNCHANGED <<currentTrackStartTime, currentTrackStartOffset,
                         currentTrackProgress, currentTrackAnalysis, currentTrack>>
          /\ {t \in timers' : t.cb \in {"fire", "progress"}}
               = {t \in timers : t.cb \in {"fire", "progress"}}
     ]_vars

\* C7 witness: a poll found the track exactly the threshold away and in sync.
C7_Witness ==
  /\ pollOutcome.kind = "insync"
  /\ Abs(pollOutcome.local - pollOutcome.remote) = currentTrackOffsetThreshold
  /\ FireTimers(timers) # {}

\* The step in which a timer fire moves the cursor of kind k one interval on.
FireAdvances(k) ==
  /\ currentTrackAnalysis # Null
  /\ currentTrackAnalysis' # Null
  /\ Len(emitted') = Len(emitted) + 1
  /\ emitted'[Len(emitted')].name = EventName(k)
  /\ currentTrackAnalysis'[k].activeIndex = currentTrackAnalysis[k].activeIndex + 1

\* C8 (re-arm on fire): when a timer fire advances a cursor from i to i+1,
\* the timer armed by that fire has the delay intervals[i+1].duration.
C8_RearmUsesNewDuration ==
  [][\A k \in KindIds :
       FireAdvances(k)
         => LET iv == currentTrackAnalysis'[k] IN
            \E t \in timers' :
              /\ t.id = iv.nextIntervalTimeout
              /\ t.at - now' = iv.intervals[iv.activeIndex + 1].duration
     ]_vars

\* The newBeat events of the current epoch.
BeatsOfEpoch == SelectSeq(emitted, LAMBDA e : e.name = "newBeat" /\ e.epoch = epoch)

\* C9 (end-to-end beat schedule): track A (4000 ms, four beats of 1000 ms)
\* anchored at position 0 and not re-anchored emits newBeat at about 1000,
\* 2000 and 3000 ms after the anchor, the i-th carrying (intervals[i],
\* intervals[i+1]), and no other newBeat.
C9_BeatSchedule ==
  (currentTrack = "A" /\ currentTrackAnalysis # Null
     /\ currentTrackStartTime # 0 /\ currentTrackStartOffset = 0)
  => /\ Len(BeatsOfEpoch) <= 3
     /\ \A j \in 1..Len(BeatsOfEpoch) :
          /\ BeatsOfEpoch[j].cur = j - 1
          /\ BeatsOfEpoch[j].nxt = j
          /\ Abs(BeatsOfEpoch[j].at - (currentTrackStartTime + 1000 * j))
               <= currentTrackOffsetThreshold

\* C10 (trackStopped): a poll that finds nothing playing emits trackStopped
\* once if a track was current and nothing if none was; no other step emits
\* it; and between two trackStopped events there is a trackChange event.
C10_TrackStopped ==
  [][/\ NothingPlayingPoll =>
          IF currentTrack # NoTrack
          THEN /\ Len(emitted') = Len(emitted) + 1
               /\ emitted'[Len(emitted')].name = "trackStopped"
          ELSE emitted' = emitted
     /\ ~NothingPlayingPoll => Count(emitted', "trackStopped") = Count(emitted, "trackStopped")
     /\ \A i, j \in 1..Len(emitted') :
          (i < j /\ emitted'[i].name = "trackStopped" /\ emitted'[j].name = "trackStopped")
            => \E m \in (i + 1)..(j - 1) : emitted'[m].name = "trackChange"
    ]_vars

\* C10 witness: trackStopped was emitted twice, and the last poll found
\* nothing playing with no track current and emitted nothing.
C10_Witness ==
  /\ Count(emitted, "trackStopped") = 2
  /\ pollOutcome.kind = "nothing"
  /\ emitted[Len(emitted)].name = "trackStopped"
  /\ emitted[Len(emitted)].epoch + 2 <= epoch

\* The last trackChange / trackStopped event of a sequence of events ("none"
\* if there is none).
LastLifecycle(events) ==
  LET idx == {i \in 1..Len(events) : events[i].name \in {"trackChange", "trackStopped"}}
  IN IF idx = {} THEN "none"
     ELSE events[CHOOSE i \in idx : \A j \in idx : j <= i].name

SamplerTimers(ts) == {t \in ts : t.cb = "progress"}

\* C11 (quiescence after nothing playing): the step in which a poll finds
\* nothing playing leaves no current track, no analysis, progress 0, no
\* interval timer and no progress sampler armed; while the engine has no
\* analysis no such timer is armed; and an interval event is only emitted
\* when the last trackChange / trackStopped event is a trackChange.
C11_Quiescent ==
  [][/\ NothingPlayingPoll =>
          /\ currentTrack' = NoTrack
          /\ currentTrackAnalysis' = Null
          /\ currentTrackProgress' = 0
          /\ FireTimers(timers') = {}
          /\ SamplerTimers(timers') = {}
     /\ currentTrackAnalysis' = Null =>
          (FireTimers(timers') = {} /\ SamplerTimers(timers') = {}
             /\ currentTrackProgress' = 0)
     /\ (Len(emitted') > Len(emitted) /\ emitted'[Len(emitted')].name \in IntervalEvents)
          => LastLifecycle(emitted) = "trackChange"
    ]_vars

\* C11 witness: a track played and emitted interval events, a poll then found
\* nothing playing, and the engine is quiescent with only the poll timer armed.
C11_Witness ==
  /\ pollOutcome.kind = "nothing"
  /\ poll.pc = "idle"
  /\ \E i \in 1..Len(emitted) : emitted[i].name \in IntervalEvents
  /\ emitted[Len(emitted)].name = "trackStopped"
  /\ currentTrack = NoTrack
  /\ PollTimers(timers) = timers

\* C12 (ordering on track change): every trackChange event is emitted with the
\* clock anchored and the interval timers of all five kinds armed, so that a
\* handler of trackChange observes an anchored clock and synced cursors.
C12_ChangeAfterAnchor ==
  \A i \in 1..Len(emitted) :
    emitted[i].name = "trackChange"
      => (emitted[i].anchor # 0 /\ emitted[i].armed = Len(Kinds))

\* The step in which the analysis of a new track arrives without one of the
\* five sequences, or with an empty one.
InvalidAnalysisStep ==
  /\ poll.pc = "analysis"
  /\ pollOutcome'.kind = "invalid"

\* C13 (invalid analysis is fatal to the track only): when the analysis of a
\* new track lacks a sequence or has an empty one, the engine emits an error
\* event, is left with no current track, no analysis and no interval or
\* sampler timer, and the poll loop goes on (a next tick is scheduled).
C13_InvalidAnalysis ==
  [][InvalidAnalysisStep
       => /\ Len(emitted') = Len(emitted) + 1
          /\ emitted'[Len(emitted')].name = "error"
          /\ currentTrack' = NoTrack
          /\ currentTrackAnalysis' = Null
          /\ FireTimers(timers') = {}
          /\ SamplerTimers(timers') = {}
          /\ PollTimers(timers') # {}
    ]_vars

----------------------------------------------------------------------------
(* Claims about normalizeIntervals, checked under SpecNorm *)

\* intervals[i] ends where intervals[i + 1] starts.
Adjoins(intervals, i) ==
  intervals[i].start + intervals[i].duration = intervals[i + 1].start

----------------------------------------------------------------------------
(* Further claims about the transition engine, checked under SpecLed *)

\* The step in which transitionBrightness is called with a start or end
\* brightness outside [0, 1] and throws.
InvalidCallStep ==
  /\ Len(calls') = Len(calls) + 1
  /\ calls'[Len(calls')].pc = "threw"

\* C15 (invalid arguments, no partial mutation): a transitionBrightness call
\* with a start or end brightness out of range fails at once, issues no
\* setBrightness call and leaves the brightness lock of its light as it was.
C15_InvalidNoMutation ==
  [][InvalidCallStep
       => /\ calls'[Len(calls')].sent = <<>>
          /\ brightnessTransitionLock' = brightnessTransitionLock
    ]_vars

\* C16 (lock release): a lock is set only while a transition of its kind is
\* running on its light; no transition that has ended, normally or by a
\* failure, leaves the lock set.
C16_LockReleased ==
  \A l \in Lights :
    /\ brightnessTransitionLock[l] => InFlight(calls, l, "brightness") # {}
    /\ colorTransitionLock[l] => InFlight(calls, l, "color") # {}

\* The arguments of an activation pass the validation of transitionBrightness
\* (transitionColor has none).
ValidArguments(call) ==
  call.kind = "brightness" =>
    (call.start >= 0 /\ call.start <= 100 /\ call.end >= 0 /\ call.end <= 100)

\* C17 (a failed step is not a failed ramp): a transition with valid
\* arguments never ends by reporting a failure; when one of its setBrightness
\* / setColor calls fails it goes on with the rest of its schedule.
C17_StepFailureTolerated ==
  \A c \in 1..Len(calls) :
    ValidArguments(calls[c]) => calls[c].pc # "threw"

----------------------------------------------------------------------------
(* Claims about the newSegment handler of main, checked under SpecShow *)

\* The step in which the engine emits a newSegment event.
SegmentEventStep ==
  /\ Len(emitted') = Len(emitted) + 1
  /\ emitted'[Len(emitted')].name = "newSegment"

\* The transitions of the given kind requested on light l for the i-th event.
CallsFor(cs, i, l, kind) ==
  {c \in DOMAIN cs : cs[c].event = i /\ cs[c].light = l /\ cs[c].kind = kind}

\* 0.95 * current.duration of a newSegment event
ScaledDuration(ev) ==
  (normalizeIntervals(ev.track, RawAnalysis(ev.track)[4])[ev.cur + 1].duration * 95) \div 100

\* C18 (headroom): whenever the handler requests transitions for a newSegment
\* event, every transition it requested before has completed and every lock
\* is free.
C18_Headroom ==
  [][(SegmentEventStep /\ Len(calls') > Len(calls))
       => /\ \A c \in DOMAIN calls : calls[c].pc = "done"
          /\ \A l \in Lights : ~brightnessTransitionLock[l] /\ ~colorTransitionLock[l]
    ]_vars

\* C18 witness: transitions were requested for two segment events, the later
\* ones in flight now.
C18_Witness ==
  \E c, d \in DOMAIN calls :
    /\ calls[c].event < calls[d].event
    /\ calls[c].pc = "done"
    /\ calls[d].pc \in {"set", "sleep"}

\* C19 (fan-out, as claimed): for every newSegment event with a next segment
\* every light has received exactly one transitionColor and exactly one
\* transitionBrightness call, each of length 0.95 * current.duration.
C19_FanOut ==
  \A i \in 1..Len(emitted) :
    (emitted[i].name = "newSegment" /\ emitted[i].nxt # -1)
      => \A l \in Lights : \A kind \in {"color", "brightness"} :
           /\ Cardinality(CallsFor(calls, i, l, kind)) = 1
           /\ \A c \in CallsFor(calls, i, l, kind) :
                calls[c].lengthMs = ScaledDuration(emitted[i])

\* C19 (fan-out, amended): a newSegment event with a next segment that is
\* emitted while segmentTransitioning is false makes exactly one
\* transitionColor and one transitionBrightness call per light, each of
\* length 0.95 * current.duration; one emitted while it is true makes none.
C19_FanOutWhenIdle ==
  [][(SegmentEventStep /\ emitted'[Len(emitted')].nxt # -1)
       => IF segmentTransitioning
          THEN calls' = calls
          ELSE /\ Len(calls') = Len(calls) + 2 * NumLights
               /\ \A c \in DOMAIN calls : calls'[c].event = calls[c].event
               /\ \A l \in Lights : \A kind \in {"color", "brightness"} :
                    /\ Cardinality(CallsFor(calls', Len(emitted'), l, kind)) = 1
                    /\ \A c \in CallsFor(calls', Len(emitted'), l, kind) :
                         calls'[c].lengthMs = ScaledDuration(emitted'[Len(emitted')])
    ]_vars

\* C19 witness: one segment event was given its transitions and a later one,
\* emitted while they were running, was skipped.
C19_Witness ==
  \E i, j \in 1..Len(emitted) :
    /\ i < j
    /\ emitted[i].name = "newSegment" /\ emitted[i].nxt # -1
    /\ emitted[j].name = "newSegment" /\ emitted[j].nxt # -1
    /\ \A l \in Lights : CallsFor(calls, i, l, "color") # {}
    /\ \A l \in Lights : CallsFor(calls, j, l, "color") = {}

\* C20 (no-op on the last segment): a newSegment event without a next segment
\* makes no transition call and changes neither segmentTransitioning nor any
\* lock of a light.
C20_LastSegmentNoOp ==
  [][(SegmentEventStep /\ emitted'[Len(emitted')].nxt = -1)
       => /\ calls' = calls
          /\ UNCHANGED <<segmentTransitioning, segmentCalls,
                          brightnessTransitionLock, colorTransitionLock>>
    ]_vars

\* C20 witness: the handler has just been run for a last segment while no
\* earlier segment was transitioning.
C20_Witness ==
  /\ listening
  /\ ~segmentTransitioning
  /\ Len(emitted) > 0
  /\ emitted[Len(emitted)].name = "newSegment"
  /\ emitted[Len(emitted)].nxt = -1
  /\ emitted[Len(emitted)].at = now

----------------------------------------------------------------------------
(* Claims about the locks of the transition engine, checked under SpecLed *)

\* The step is one of a transition of the given kind on light l: its call, or
\* a move of one of its activations.
StepOf(l, kind) ==
  \/ /\ Len(calls') = Len(calls) + 1
     /\ calls'[Len(calls')].light = l
     /\ calls'[Len(calls')].kind = kind
  \/ \E c \in DOMAIN calls :
       /\ calls[c].light = l
       /\ calls[c].kind = kind
       /\ calls'[c].pc # calls[c].pc

\* C21 (locks are independent per light and kind): a lock is written only by
\* a transition of its own kind on its own light, and a transition called
\* with valid arguments and time for a step issues that step whatever
\* transitions of the other kind, or on other lights, are in flight.
C21_LocksIndependent ==
  [][/\ \A l \in Lights :
          /\ brightnessTransitionLock'[l] # brightnessTransitionLock[l]
               => StepOf(l, "brightness")
          /\ colorTransitionLock'[l] # colorTransitionLock[l]
               => StepOf(l, "color")
     /\ (Len(calls') = Len(calls) + 1
           /\ ValidArguments(calls'[Len(calls')])
           /\ calls'[Len(calls')].lengthMs > commandDelayMs)
          => calls'[Len(calls')].sent # <<>>
    ]_vars

\* C21 witness: a brightness and a colour transition are in flight on the
\* same light, the later of them called while the other held its lock.
C21_Witness ==
  \E l \in Lights :
    /\ InFlight(calls, l, "brightness") # {}
    /\ InFlight(calls, l, "color") # {}
    /\ brightnessTransitionLock[l]
    /\ colorTransitionLock[l]
    /\ \A c \in DOMAIN calls : ~calls[c].entryLock

----------------------------------------------------------------------------
(* Further claims about the interval schedulers *)

\* The events with the given name emitted in the given epoch (between two
\* consecutive cancellations: one anchoring of one track).
EventsOf(name, ep) == SelectSeq(emitted, LAMBDA e : e.name = name /\ e.epoch = ep)

\* C22 (event ordering): between two consecutive re-anchors the events of
\* one kind are emitted in non-decreasing time order, and each carries the
\* index that follows the index of the one before: no index is skipped and
\* none is emitted twice.
C22_EventOrder ==
  \A k \in KindIds : \A ep \in 0..epoch :
    LET evs == EventsOf(EventName(k), ep) IN
    \A j \in 1..(Len(evs) - 1) :
      /\ evs[j + 1].cur = evs[j].cur + 1
      /\ evs[j + 1].at >= evs[j].at
      /\ evs[j + 1].track = evs[j].track

\* C22 witness: one anchoring has emitted all four beats of track A.
C22_Witness ==
  \E ep \in 0..epoch :
    /\ Len(EventsOf("newBeat", ep)) = 4
    /\ EventsOf("newBeat", ep)[4].nxt = -1

\* C23 (idempotent cancel): in every reachable state (timers armed, fired
\* naturally, at the terminal interval, or already cancelled) _stopTrack
\* raises no error and leaves no interval timer and no sampler armed, so no
\* further interval event can be emitted; and a second _stopTrack right
\* after it raises no error and changes nothing more.
C23_IdempotentCancel ==
  LET S1 == _stopTrack(Cur)
      S2 == _stopTrack(S1)
  IN /\ S1.thrown = thrown
     /\ FireTimers(S1.timers) = {}
     /\ SamplerTimers(S1.timers) = {}
     /\ PollTimers(S1.timers) = PollTimers(timers)
     /\ S2.thrown = S1.thrown
     /\ S2 = [S1 EXCEPT !.epoch = S2.epoch]

\* C23 witness: a track is loaded whose tatums have fired at their terminal
\* interval (the stored handle is that of a fired timer) while other kinds
\* still have a timer armed.
C23_Witness ==
  /\ currentTrackAnalysis # Null
  /\ LET iv == currentTrackAnalysis[5] IN
     /\ iv.activeIndex = Len(iv.intervals) - 1
     /\ iv.nextIntervalTimeout # 0
     /\ \A t \in timers : t.id # iv.nextIntervalTimeout
     /\ \E i \in 1..Len(emitted) :
          emitted[i].name = "newTatum" /\ emitted[i].nxt = -1 /\ emitted[i].epoch = epoch
  /\ FireTimers(timers) # {}

\* The step in which the engine syncs a track to a position: the end of a
\* track change or of a drift correction (_startTrack has run).
SyncStep ==
  /\ poll.pc \in {"playback", "analysis"}
  /\ poll'.pc = "idle"
  /\ pollOutcome'.kind \in {"change", "drift"}

\* C24 (sync selects the containing interval): after a sync to a position p
\* with 0 <= p < duration_ms, the active interval of every kind contains p.
C24_SyncContaining ==
  [][(SyncStep /\ currentTrackProgress' >= 0
        /\ currentTrackProgress' < duration_ms(currentTrack'))
       => \A k \in KindIds :
            currentTrackAnalysis'[k].activeIndex
              \in Containing(currentTrackAnalysis'[k].intervals, currentTrackProgress')
    ]_vars

\* C25 (sync clamps): when the position of a sync lies in no interval because
\* it is at or past the end of the last one, the cursor is set to the last
\* index (and to 0 for a position before the first interval).
C25_SyncClamps ==
  [][SyncStep
       => \A k \in KindIds :
            LET iv == currentTrackAnalysis'[k]
                n == Len(iv.intervals)
                p == currentTrackProgress'
            IN /\ p >= iv.intervals[n].start + iv.intervals[n].duration
                    => iv.activeIndex = n - 1
               /\ p < iv.intervals[1].start => iv.activeIndex = 0
    ]_vars

\* C26 (timer arming on sync): after a sync to position p that leaves the
\* cursor of a kind at index i, exactly one interval timer is armed for that
\* kind and it fires intervals[i].start + intervals[i].duration - p from now.
C26_ArmedDelay ==
  [][SyncStep
       => \A k \in KindIds :
            LET iv == currentTrackAnalysis'[k]
                active == iv.intervals[iv.activeIndex + 1]
                armed == {t \in FireTimers(timers') : t.arg = k}
            IN /\ Cardinality(armed) = 1
               /\ \A t \in armed :
                    t.at - now' = active.start + active.duration - currentTrackProgress'
    ]_vars

\* The armed, un-fired interval timers of a kind.
ArmedFor(ts, k) == {t \in FireTimers(ts) : t.arg = k}

\* C27 (single pending timer): in every reachable state each kind has at most
\* one armed interval timer, and an armed one is the timer whose handle is
\* stored in nextIntervalTimeout of that kind (none is armed while no
\* analysis is loaded).
C27_SinglePendingTimer ==
  \A k \in KindIds :
    /\ Cardinality(ArmedFor(timers, k)) <= 1
    /\ \A t \in ArmedFor(timers, k) :
         /\ currentTrackAnalysis # Null
         /\ t.id = currentTrackAnalysis[k].nextIntervalTimeout

\* C27 witness: a drift correction has re-armed every kind: each has exactly
\* one armed timer, staged after the timers of the track load were cancelled.
C27_Witness ==
  /\ pollOutcome.kind = "drift"
  /\ currentTrackAnalysis # Null
  /\ \A k \in KindIds :
       /\ Cardinality(ArmedFor(timers, k)) = 1
       /\ \A t \in ArmedFor(timers, k) : t.id > 2 * Cardinality(KindIds)

\* C28 (cursor bounds): whenever an analysis is loaded, the cursor of every
\* kind satisfies 0 <= activeIndex < Len(intervals).
C28_CursorBounds ==
  currentTrackAnalysis # Null
    => \A k \in KindIds :
         /\ currentTrackAnalysis[k].activeIndex >= 0
         /\ currentTrackAnalysis[k].activeIndex < Len(currentTrackAnalysis[k].intervals)

\* C28 witness: a kind has fired at its last interval (the cursor is at the
\* last index and stays there) while a drift correction has set the cursor of
\* another kind.
C28_Witness ==
  /\ currentTrackAnalysis # Null
  /\ pollOutcome.kind = "drift"
  /\ \E k \in KindIds :
       /\ Len(currentTrackAnalysis[k].intervals) > 1
       /\ currentTrackAnalysis[k].activeIndex = Len(currentTrackAnalysis[k].intervals) - 1
       /\ \E i \in 1..Len(emitted) :
            /\ emitted[i].name = EventName(k)
            /\ emitted[i].nxt = -1
            /\ emitted[i].epoch = epoch

\* The positions in emitted of the events of a kind that carry no next
\* interval: the fires at the last interval.
TerminalFires(k) ==
  {i \in 1..Len(emitted) : emitted[i].name = EventName(k) /\ emitted[i].nxt = -1}

\* After a fire at the last interval, and until the next cancellation, the
\* event carried the last interval, the cursor is still the last index and no
\* timer of the kind is armed.
TerminalQuiet ==
  \A k \in KindIds : \A i \in TerminalFires(k) :
    emitted[i].epoch = epoch
      => /\ currentTrackAnalysis # Null
         /\ emitted[i].cur = Len(currentTrackAnalysis[k].intervals) - 1
         /\ currentTrackAnalysis[k].activeIndex = emitted[i].cur
         /\ ArmedFor(timers, k) = {}

\* C29 (terminal state) as claimed: a fire at the last interval carries
\* (intervals[last], none), does not advance the cursor and arms no timer,
\* and the kind emits again only after a new track load (trackChange).
C29_TerminalUntilSeed ==
  /\ TerminalQuiet
  /\ \A k \in KindIds : \A i \in TerminalFires(k) :
       \A j \in (i + 1)..Len(emitted) :
         emitted[j].name = EventName(k)
           => \E m \in (i + 1)..(j - 1) : emitted[m].name = "trackChange"

\* C29, amended: a fire at the last interval carries (intervals[last], none),
\* does not advance the cursor and arms no timer, and the kind emits again
\* only after its timers were cancelled and it was synced again: by a new
\* track load or by a drift correction of the same track.
C29_TerminalUntilResync ==
  /\ TerminalQuiet
  /\ \A k \in KindIds : \A i \in TerminalFires(k) :
       \A j \in (i + 1)..Len(emitted) :
         emitted[j].name = EventName(k)
           => /\ emitted[j].epoch > emitted[i].epoch
              /\ emitted[j].anchor > emitted[i].anchor

\* C29 witness: a kind fired at its last interval when the whole track had
\* played since the anchor and later, after a drift correction of the same
\* track to a position before its end, emitted again.
C29_Witness ==
  \E k \in KindIds : \E i \in TerminalFires(k) :
    /\ emitted[i].at - emitted[i].anchor >= duration_ms(emitted[i].track)
    /\ \E j \in (i + 1)..Len(emitted) :
         /\ emitted[j].name = EventName(k)
         /\ emitted[j].track = emitted[i].track
         /\ emitted[j].at - emitted[j].anchor > 1
         /\ \A m \in i..j : emitted[m].name # "trackChange"

\* C30 (ramp step count): a transitionBrightness call that passed validation
\* and ran to its end has issued exactly lengthMs \div commandDelayMs
\* setBrightness calls, one every commandDelayMs from its start on.
C30_RampStepCount ==
  \A c \in 1..Len(calls) :
    (calls[c].kind = "brightness" /\ calls[c].pc = "done")
      => /\ Len(calls[c].sent) = calls[c].lengthMs \div commandDelayMs
         /\ \A i \in 1..Len(calls[c].sent) :
              calls[c].sent[i] = (i - 1) * commandDelayMs

\* C31 (loudness clamped): every brightness transition the newSegment handler
\* starts is given a start and an end brightness inside [0, 1], so none of
\* them fails the validation of transitionBrightness.
C31_BrightnessClamped ==
  \A c \in 1..Len(calls) :
    calls[c].kind = "brightness"
      => /\ calls[c].start >= 0 /\ calls[c].start <= 100
         /\ calls[c].end >= 0 /\ calls[c].end <= 100
         /\ calls[c].pc # "threw"

\* The pitch classes claimed for light l (lights counted from 1, pitch
\* classes from 0): [(l - 1) * 12 / N, l * 12 / N).
Band(l) == (((l - 1) * 12) \div NumLights)..(((l * 12) \div NumLights) - 1)

\* The lights whose colour transition of the newSegment event delivered at
\* time t starts (ends) at a colour other than that of silence.
StartOwners(t) ==
  {l \in Lights : \E c \in 1..Len(calls) :
     /\ calls[c].kind = "color" /\ calls[c].light = l
     /\ calls[c].startTime = t /\ calls[c].start # 0}

EndOwners(t) ==
  {l \in Lights : \E c \in 1..Len(calls) :
     /\ calls[c].kind = "color" /\ calls[c].light = l
     /\ calls[c].startTime = t /\ calls[c].end # 0}

\* C32 (pitch-band partition): with NumLights dividing 12, the colour of
\* light l is computed from exactly the pitch classes of Band(l): a pitch
\* class sounding alone colours the light whose band holds it and no other
\* light; the bands are non-empty, pairwise disjoint and cover the 12 pitch
\* classes.  In the calls of an accepted event, whose current segment sounds
\* one class and whose next segment sounds the mirrored class, exactly one
\* light starts at a colour and the mirrored light ends at one.
C32_PitchBands ==
  /\ 12 % NumLights = 0
  /\ \A l \in Lights : Band(l) # {}
  /\ \A l1 \in Lights, l2 \in Lights : l1 # l2 => Band(l1) \cap Band(l2) = {}
  /\ UNION {Band(l) : l \in Lights} = 0..11
  /\ \A p \in 1..12 : \A l \in Lights :
       (Colors(OneHot(p))[l] # 0) <=> (p - 1 \in Band(l))
  /\ \A c \in 1..Len(calls) :
       calls[c].kind = "color"
         => /\ Cardinality(StartOwners(calls[c].startTime)) = 1
            /\ EndOwners(calls[c].startTime)
                 = {NumLights + 1 - l : l \in StartOwners(calls[c].startTime)}

\* C32 witness: an accepted event whose current segment sounds a pitch class
\* of the last light's band: that light alone starts at a colour, and the
\* transitions of every light have run to their end.
C32_Witness ==
  /\ StartOwners(0) = {NumLights}
  /\ EndOwners(0) = {1}
  /\ \A l \in Lights : \E c \in 1..Len(calls) :
       calls[c].kind = "color" /\ calls[c].light = l /\ calls[c].pc = "done"

\* C33 (every interval announced exactly once): in the events a kind has
\* emitted since the last sync, the current indices are consecutive (none
\* twice, none skipped, in index order); while a timer of the kind is armed
\* they end just before the cursor, and once none is armed they have run from
\* the index of the sync to the last index, where the cursor stays.
C33_AnnouncedOnce ==
  currentTrackAnalysis # Null
    => \A k \in KindIds :
         LET evs == EventsOf(EventName(k), epoch)
             n == Len(currentTrackAnalysis[k].intervals)
             a == currentTrackAnalysis[k].activeIndex
         IN /\ \A j \in 1..(Len(evs) - 1) : evs[j + 1].cur = evs[j].cur + 1
            /\ \A j \in 1..Len(evs) : evs[j].track = currentTrack
            /\ ArmedFor(timers, k) # {}
                 => /\ Len(evs) > 0 => evs[Len(evs)].cur = a - 1
                    /\ \A j \in 1..Len(evs) : evs[j].nxt = evs[j].cur + 1
            /\ ArmedFor(timers, k) = {}
                 => /\ Len(evs) > 0
                    /\ evs[Len(evs)].cur = n - 1
                    /\ evs[Len(evs)].nxt = -1
                    /\ a = n - 1

\* C33 witness: a kind synced to an index other than 0 has announced two or
\* more intervals, up to its last one, and has no timer armed any more.
C33_Witness ==
  /\ currentTrackAnalysis # Null
  /\ \E k \in KindIds :
       LET evs == EventsOf(EventName(k), epoch) IN
       /\ Len(evs) >= 2
       /\ evs[1].cur > 0
       /\ evs[Len(evs)].nxt = -1
       /\ ArmedFor(timers, k) = {}

\* C34 (timer callbacks never run against cleared state): no interval timer
\* is armed while currentTrackAnalysis is null and no progress sampler is
\* armed while currentTrackStartTime is 0, so neither _fireInterval nor
\* _calculateTrackProgress has ever thrown.
C34_NoCallbackOnClearedState ==
  /\ FireTimers(timers) # {} => currentTrackAnalysis # Null
  /\ SamplerTimers(timers) # {} => currentTrackStartTime # 0
  /\ \A e \in thrown : e[1] \notin {"_fireInterval", "_calculateTrackProgress", "_getInterval"}

\* C34 witness: a track whose interval timers had fired was stopped and
\* cleared by a poll that found nothing playing, and time has passed since.
C34_Witness ==
  /\ currentTrackAnalysis = Null
  /\ currentTrackStartTime = 0
  /\ pollOutcome.kind = "nothing"
  /\ Len(emitted) > 1
  /\ emitted[Len(emitted)].name = "trackStopped"
  /\ emitted[Len(emitted) - 1].name \in IntervalEvents
  /\ now > emitted[Len(emitted)].at

\* A poll tick or a timer callback of the engine is about to run.
EngineCallbackDue == Due # {} /\ NextTimer.cb \in {"ping", "progress", "fire"}

\* C35 (track state is all-or-nothing): whenever a poll tick or a timer
\* callback of the engine starts, currentTrack and currentTrackAnalysis are
\* both null, or both set with the analysis being that of currentTrack.
C35_TrackAllOrNothing ==
  EngineCallbackDue
    => /\ (currentTrack = NoTrack) <=> (currentTrackAnalysis = Null)
       /\ currentTrackAnalysis # Null
            => \A k \in KindIds :
                 currentTrackAnalysis[k].intervals
                   = normalizeIntervals(currentTrack, RawAnalysis(currentTrack)[k])

\* C35 witness: a poll tick starts after a second track change: track and
\* analysis have been replaced together.
C35_Witness ==
  /\ Due # {}
  /\ NextTimer.cb = "ping"
  /\ currentTrack # NoTrack
  /\ currentTrackAnalysis # Null
  /\ Count(emitted, "trackChange") >= 2
  /\ \E i \in 1..Len(emitted) :
       emitted[i].name = "trackChange" /\ emitted[i].track # currentTrack

\* The step that ends a track change: the analysis has arrived and
\* _startTrack has anchored the clock.
AnchorAfterChange ==
  /\ poll.pc = "analysis"
  /\ poll'.pc = "idle"
  /\ pollOutcome'.kind = "change"

\* C36 (anchor after a slow track change): when a track change anchors the
\* clock, the anchored position is within currentTrackOffsetThreshold of the
\* position the service has reached by then, which is the position it
\* reported plus the time that has passed since it was asked (poll.now0),
\* however long the track and analysis requests took.
C36_AnchorAfterFetch ==
  [][AnchorAfterChange
       => Abs(currentTrackProgress' - (poll.progressMs + (now' - poll.now0)))
            <= currentTrackOffsetThreshold
    ]_vars

\* C37 (coordinator guard is always released): segmentTransitioning is set
\* only while a transition of the accepted event is still running; once they
\* have all ended, by finishing or by rejecting, the flag is clear again.
C37_GuardReleased ==
  segmentTransitioning
    => \E c \in 1..Len(calls) : calls[c].pc \in {"set", "sleep"}

\* The step in which the timer of kind k fires and _incrementInterval stages
\* the next one.
FireRearmStep(k) ==
  /\ Due # {}
  /\ NextTimer.cb = "fire"
  /\ NextTimer.arg = k
  /\ currentTrackAnalysis # Null
  /\ currentTrackAnalysis' # Null
  /\ currentTrackAnalysis'[k].activeIndex = currentTrackAnalysis[k].activeIndex + 1

\* C38 (armed delays are well-formed): the delay _stageInterval passes to
\* setTimeout is never negative and never longer than the interval the timer
\* is armed for, both when a sync stages the timer of the active interval and
\* when a fire stages the timer of the next one.
C38_DelaysWellFormed ==
  [][/\ SyncStep
          => \A k \in KindIds :
               LET iv == currentTrackAnalysis'[k]
                   active == iv.intervals[iv.activeIndex + 1]
                   delay == active.duration - (currentTrackProgress' - active.start)
               IN delay >= 0 /\ delay <= active.duration
     /\ \A k \in KindIds :
          FireRearmStep(k)
            => LET iv == currentTrackAnalysis[k]
                   fired == iv.intervals[iv.activeIndex + 1]
                   staged == iv.intervals[iv.activeIndex + 2]
                   delay == fired.duration - (currentTrackProgress - fired.start)
               IN delay >= 0 /\ delay <= staged.duration
    ]_vars

====
